---- MODULE Spec2Model ----
(***************************************************************************)
(* Model of API/main.py: the Nigerian maize yield prediction service.      *)
(* Startup loads five joblib artifacts; six endpoints are then served.     *)
(* Every handler runs to completion without yielding, so one request is    *)
(* one step.                                                               *)
(*                                                                         *)
(* Representation:                                                         *)
(*   - a season string is a sequence of one-character strings, so that     *)
(*     str.lower() is computed character by character;                     *)
(*   - state and grade labels are atomic strings (compared exactly);       *)
(*   - area_ha takes whole-hectare values;                                 *)
(*   - an exception message and an HTTP detail are sequences of tokens,    *)
(*     an f-string is the concatenation of its parts;                      *)
(*   - the raw prediction of the model is a number of eighths (exactly     *)
(*     representable as a float), predicted_yield a number of hundredths.  *)
(***************************************************************************)
EXTENDS Integers, Sequences, FiniteSets, TLC

VARIABLES pc, loaded, model, scaler, le_state, le_grade, feature_names,
          VALID_STATES, VALID_GRADES, op, request, response, calls, log

vars ==
  <<pc, loaded, model, scaler, le_state, le_grade, feature_names,
    VALID_STATES, VALID_GRADES, op, request, response, calls, log>>

globals ==
  <<model, scaler, le_state, le_grade, feature_names, VALID_STATES, VALID_GRADES>>

(* ---------------------------- bounds ----------------------------------- *)

\* Longest list posted to /predict/batch.
MaxBatch == 3

(* ------------------------- program constants --------------------------- *)

YearMin == 2000

YearMax == 2030

AreaMin == 0

AreaMax == 1000

\* VALID_STATES[:10] and len(VALID_STATES)-10
ListedStates == 10

(* ------------------------------ helpers -------------------------------- *)

Range(s) ==
  {s[i] : i \in 1..Len(s)}

Min(a, b) ==
  IF a < b THEN a ELSE b

\* s[:n] of a Python list
Slice(s, n) ==
  SubSeq(s, 1, Min(n, Len(s)))

\* list.index(x), 0-based; x is in s
IndexOf(s, x) ==
  (CHOOSE i \in 1..Len(s) : s[i] = x /\ \A j \in 1..(i - 1) : s[j] # x) - 1

RECURSIVE SumSeq(_)
SumSeq(s) ==
  IF s = <<>> THEN 0 ELSE Head(s) + SumSeq(Tail(s))

\* Code point order of the labels that occur (upper case sorts before lower case).
CodePointOrder ==
  <<"A", "Abia", "Adamawa", "B", "Bauchi", "Benue", "Borno", "C", "D",
    "Delta", "Edo", "Grade A", "Grade B", "Grade C", "Kaduna", "Kano",
    "Lagos", "Ogun", "Oyo", "kano">>

Rank(label) ==
  IndexOf(CodePointOrder, label)

RECURSIVE InsertSorted(_, _)
InsertSorted(x, s) ==
  IF s = <<>> THEN <<x>>
  ELSE IF Rank(x) <= Rank(Head(s)) THEN <<x>> \o s
  ELSE <<Head(s)>> \o InsertSorted(x, Tail(s))

\* sorted(list): a new list, the argument is not touched
RECURSIVE sorted(_)
sorted(s) ==
  IF s = <<>> THEN <<>> ELSE InsertSorted(Head(s), sorted(Tail(s)))

\* str.lower() on one character
LowerChar(c) ==
  CASE c = "W" -> "w"
    [] c = "E" -> "e"
    [] c = "T" -> "t"
    [] c = "D" -> "d"
    [] c = "R" -> "r"
    [] c = "Y" -> "y"
    [] c = "A" -> "a"
    [] c = "I" -> "i"
    [] c = "N" -> "n"
    [] OTHER -> c

\* str.lower()
lower(v) ==
  [i \in 1..Len(v) |-> LowerChar(v[i])]

wet ==
  <<"w", "e", "t">>

dry ==
  <<"d", "r", "y">>

(* ----------------------- persisted artifacts --------------------------- *)

Artifacts ==
  {"model", "scaler", "le_state", "le_grade", "feature_names"}

\* best_model.pkl: an opaque predictor.  It expects n_features_in_ columns
\* and raises on inputs it does not accept (here: sum of the features above
\* limit); otherwise its output depends on the position of every value.
ModelArtifacts ==
  { [n_features_in_ |-> 6, limit |-> 100000],
    [n_features_in_ |-> 6, limit |-> 3000],
    [n_features_in_ |-> 5, limit |-> 100000] }

ScalerArtifacts ==
  { [kind |-> "StandardScaler"] }

\* le_state.pkl: a LabelEncoder, classes_ is its list of known labels.
StateEncoderArtifacts ==
  { [classes_ |-> <<"Abia", "Kano", "Lagos">>],
    [classes_ |-> <<"Kano", "Abia">>],
    [classes_ |-> <<"Abia", "Adamawa", "Bauchi", "Benue", "Borno", "Delta",
                    "Edo", "Kaduna", "Kano", "Lagos", "Ogun", "Oyo">>] }

GradeEncoderArtifacts ==
  { [classes_ |-> <<"A", "B", "C">>],
    [classes_ |-> <<"Grade A", "Grade B", "Grade C">>] }

\* The columns predict_yield assembles, in assembly order.
AssembledColumns ==
  <<"state", "is_wet", "year", "area_ha", "quality_grade", "area_wet_interaction">>

\* feature_names.pkl: the training column order.
FeatureSchemaArtifacts ==
  { AssembledColumns,
    <<"area_wet_interaction", "quality_grade", "area_ha", "year", "is_wet", "state">>,
    <<"year", "state", "area_wet_interaction", "is_wet", "quality_grade", "area_ha">>,
    <<"state", "is_wet", "year", "area_ha", "quality_grade", "soil_type">>,
    <<"state", "is_wet", "year", "area_ha", "quality_grade">> }

(* ----------------------------- inputs ---------------------------------- *)

StateInputs ==
  {"Abia", "Kano", "Lagos", "kano"}

SeasonInputs ==
  { <<"w", "e", "t">>, <<"W", "E", "T">>, <<"D", "r", "y">>, <<"d", "r", "y">>,
    <<"r", "a", "i", "n", "y">> }

YearInputs ==
  {1999, 2000, 2030, 2031}

AreaInputs ==
  {0, 5, 1000, 1001}

GradeInputs ==
  {"A", "C", "Grade A", "D"}

RawRequests ==
  [state : StateInputs, season : SeasonInputs, year : YearInputs,
   area_ha : AreaInputs, quality_grade : GradeInputs]

\* The items a posted batch is made of.
BatchItems ==
  { [state |-> "Kano", season |-> <<"W", "E", "T">>, year |-> 2000, area_ha |-> 5,
     quality_grade |-> "A"],
    [state |-> "Abia", season |-> <<"d", "r", "y">>, year |-> 2030, area_ha |-> 1000,
     quality_grade |-> "A"],
    [state |-> "kano", season |-> <<"w", "e", "t">>, year |-> 2000, area_ha |-> 5,
     quality_grade |-> "A"],
    [state |-> "Abia", season |-> <<"w", "e", "t">>, year |-> 2030, area_ha |-> 5,
     quality_grade |-> "C"],
    [state |-> "Kano", season |-> <<"D", "r", "y">>, year |-> 2000, area_ha |-> 5,
     quality_grade |-> "Grade A"] }

RECURSIVE SeqsUpTo(_, _)
SeqsUpTo(S, n) ==
  IF n = 0 THEN {<<>>}
  ELSE LET shorter == SeqsUpTo(S, n - 1)
       IN  shorter \cup {Append(s, x) : s \in shorter, x \in S}

BatchInputs ==
  SeqsUpTo(BatchItems, MaxBatch)

(* --------------------------- results ----------------------------------- *)

NoException ==
  [type |-> "None", msg |-> <<>>]

Exception(type, msg) ==
  [type |-> type, msg |-> msg]

\* str(e)
str(e) ==
  IF e.type = "HTTPException" THEN <<ToString(e.status_code), ": ">> \o e.detail ELSE e.msg

HTTPException(status_code, detail) ==
  [type |-> "HTTPException", msg |-> detail, status_code |-> status_code,
   detail |-> detail]

Returned(v) ==
  [raised |-> FALSE, value |-> v, exc |-> NoException]

Raised(e) ==
  [raised |-> TRUE, value |-> <<>>, exc |-> e]

(* -------------------- YieldPredictionRequest --------------------------- *)

\* validate_season returning its argument instead of v_lower.
validate_season_unnormalized(v) ==
  LET v_lower == lower(v)
  IN  IF v_lower \notin {wet, dry}
      THEN Raised(Exception("ValueError", <<"Season must be either 'wet' or 'dry'">>))
      ELSE Returned(v)

validate_season(v) ==
  LET v_lower == lower(v)
  IN  IF v_lower \notin {wet, dry}
      THEN Raised(Exception("ValueError", <<"Season must be either 'wet' or 'dry'">>))
      ELSE Returned(v_lower)

\* The message of validate_state: the states it lists and the number it
\* reports as "and N more".
StateNotRecognized(v) ==
  [text |-> <<"State '", v, "' not recognized. Available states: ">>,
   listed |-> Slice(VALID_STATES, ListedStates),
   more |-> Len(VALID_STATES) - ListedStates]

\* validate_state without the membership test.
validate_state_unchecked(v) ==
  Returned(v)

validate_state(v) ==
  IF v \notin Range(VALID_STATES)
  THEN Raised(Exception("ValueError", <<StateNotRecognized(v)>>))
  ELSE Returned(v)

validate_grade(v) ==
  IF v \notin Range(VALID_GRADES)
  THEN Raised(Exception("ValueError",
                <<"Quality grade '", v, "' not recognized. Available grades: ">>
                \o VALID_GRADES))
  ELSE Returned(v)

\* year: int = Field(ge=2000, le=2030)
validate_year(v) ==
  IF v < YearMin THEN Raised(Exception("greater_than_equal", <<YearMin>>))
  ELSE IF v > YearMax THEN Raised(Exception("less_than_equal", <<YearMax>>))
  ELSE Returned(v)

\* area_ha: float = Field(gt=0.0, le=1000.0)
validate_area_ha(v) ==
  IF ~(v > AreaMin) THEN Raised(Exception("greater_than", <<AreaMin>>))
  ELSE IF v > AreaMax THEN Raised(Exception("less_than_equal", <<AreaMax>>))
  ELSE Returned(v)

FieldError(loc, r) ==
  IF r.raised THEN <<[loc |-> loc, type |-> r.exc.type, msg |-> r.exc.msg]>> ELSE <<>>

\* The request built from the results of the five field validations: the
\* errors of all fields in field order, or the validated values.
ValidatedRequest(state, season, year, area_ha, quality_grade) ==
  LET errors == FieldError("state", state) \o FieldError("season", season)
                \o FieldError("year", year) \o FieldError("area_ha", area_ha)
                \o FieldError("quality_grade", quality_grade)
  IN  IF errors # <<>>
      THEN [raised |-> TRUE, value |-> <<>>, errors |-> errors]
      ELSE [raised |-> FALSE,
            value |-> [state |-> state.value, season |-> season.value,
                       year |-> year.value, area_ha |-> area_ha.value,
                       quality_grade |-> quality_grade.value],
            errors |-> <<>>]

\* Construction of a YieldPredictionRequest from a raw body: every field is
\* validated.
YieldPredictionRequest(raw) ==
  ValidatedRequest(validate_state(raw.state), validate_season(raw.season),
                   validate_year(raw.year), validate_area_ha(raw.area_ha),
                   validate_grade(raw.quality_grade))

(* ------------------- encoders, frame, predictor ------------------------ *)

\* LabelEncoder.transform([label])[0]
transform(le, label) ==
  IF label \in Range(le.classes_)
  THEN Returned(IndexOf(le.classes_, label))
  ELSE Raised(Exception("ValueError", <<"y contains previously unseen labels: ", label>>))

\* pd.DataFrame({...}) with one row: the column names and the row's values
DataFrame(columns, row) ==
  [columns |-> columns, row |-> row]

\* df[names]: the frame with the columns names, in that order
GetItem(df, names) ==
  LET missing == SelectSeq(names, LAMBDA n : n \notin Range(df.columns))
  IN  IF missing # <<>>
      THEN Raised(Exception("KeyError", missing \o <<" not in index">>))
      ELSE Returned(DataFrame(names,
             [i \in 1..Len(names) |-> df.row[IndexOf(df.columns, names[i]) + 1]]))

\* model.predict(X)[0], in eighths
ModelPredict(m, X) ==
  IF Len(X.columns) # m.n_features_in_
  THEN Raised(Exception("ValueError",
         <<"X has ", ToString(Len(X.columns)), " features, but the model is expecting ",
           ToString(m.n_features_in_), " features as input">>))
  ELSE IF SumSeq(X.row) > m.limit
  THEN Raised(Exception("ValueError", <<"Input X contains a value the model rejects">>))
  ELSE Returned(SumSeq([i \in 1..Len(X.row) |-> i * X.row[i]]) % 64)

\* round(x, 2) of x = eighths/8, in hundredths: x*100 = eighths*25/2, a tie
\* when eighths is odd, and ties go to the even neighbour.
round2(eighths) ==
  LET twice == eighths * 25
      floor == twice \div 2
  IN  IF twice % 2 = 0 THEN floor
      ELSE IF floor % 2 = 0 THEN floor ELSE floor + 1

(* ----------------------------- /predict -------------------------------- *)

IsWet(season) ==
  IF season = wet THEN 1 ELSE 0

\* The interaction term with + written for *.
AreaWetInteraction_sum(area_ha, is_wet) ==
  area_ha + is_wet

AreaWetInteraction(area_ha, is_wet) ==
  area_ha * is_wet

\* predict_yield without the reordering step.
ReorderColumns_skipped(input_data) ==
  Returned(input_data)

ReorderColumns(input_data) ==
  GetItem(input_data, feature_names)

Call(fn, arg) ==
  [fn |-> fn, arg |-> arg]

YieldPredictionResponse(predicted_yield, req) ==
  [predicted_yield |-> predicted_yield,
   input_parameters |-> [state |-> req.state, season |-> req.season, year |-> req.year,
                         area_ha |-> req.area_ha, quality_grade |-> req.quality_grade],
   model_used |-> "Random Forest",
   unit |-> "tonnes/hectare"]

\* The except clause of predict_yield: print the traceback, raise a 500.
PredictionFailed(e, made) ==
  [raised |-> TRUE, value |-> <<>>,
   exc |-> HTTPException(500, <<"Prediction failed: ">> \o str(e)),
   calls |-> made, log |-> <<e>>]

\* Lines 237-256: the prediction of the reordered frame, rounded and wrapped.
PredictAndRespond(req, made, X, prediction) ==
  IF prediction.raised
  THEN PredictionFailed(prediction.exc, Append(made, Call("model.predict", X)))
  ELSE [raised |-> FALSE,
        value |-> YieldPredictionResponse(round2(prediction.value), req),
        exc |-> NoException,
        calls |-> Append(made, Call("model.predict", X)), log |-> <<>>]

\* Lines 234-238: the frame in schema order goes to the predictor.
ReorderAndPredict(req, made, reordered) ==
  IF reordered.raised
  THEN PredictionFailed(reordered.exc, made)
  ELSE PredictAndRespond(req, made, reordered.value,
                         ModelPredict(model, reordered.value))

\* Lines 217-235: the interaction term and the frame in assembly order.
AssembleFrame(req, made, state_code, is_wet, grade_encoded) ==
  IF grade_encoded.raised
  THEN PredictionFailed(grade_encoded.exc, made)
  ELSE ReorderAndPredict(req, made,
         ReorderColumns(DataFrame(AssembledColumns,
           <<state_code, is_wet, req.year, req.area_ha, grade_encoded.value,
             AreaWetInteraction(req.area_ha, is_wet)>>)))

\* Lines 209-215: the wet flag and the grade code.
EncodeSeasonAndGrade(req, state_encoded) ==
  IF state_encoded.raised
  THEN PredictionFailed(state_encoded.exc, <<Call("le_state.transform", req.state)>>)
  ELSE AssembleFrame(req,
         <<Call("le_state.transform", req.state),
           Call("le_grade.transform", req.quality_grade)>>,
         state_encoded.value, IsWet(req.season),
         transform(le_grade, req.quality_grade))

\* predict_yield(request): what it returns or raises, the calls it makes to
\* the encoders and the predictor, and the tracebacks it prints.
predict_yield(req) ==
  EncodeSeasonAndGrade(req, transform(le_state, req.state))

(* --------------------------- /predict/batch ---------------------------- *)

\* predictions.insert(0, result) written for predictions.append(result).
AppendPrediction_front(predictions, result) ==
  <<result>> \o predictions

AppendPrediction(predictions, result) ==
  Append(predictions, result)

\* One iteration: r is what predict_yield did for the item.
Accumulate(acc, r) ==
  [raised |-> r.raised,
   value |-> IF r.raised THEN acc.value ELSE AppendPrediction(acc.value, r.value),
   exc |-> r.exc,
   calls |-> acc.calls \o r.calls,
   log |-> acc.log \o r.log]

\* The for loop with a try/except around each item that skips a failed item.
RECURSIVE BatchLoop_skipping(_, _, _)
BatchLoop_skipping(requests, i, acc) ==
  IF i > Len(requests) THEN acc
  ELSE BatchLoop_skipping(requests, i + 1,
         [Accumulate(acc, predict_yield(requests[i]))
            EXCEPT !.raised = FALSE, !.exc = NoException])

\* The for loop of predict_yield_batch from item i on; an exception of
\* predict_yield leaves the loop.
RECURSIVE BatchLoop(_, _, _)
BatchLoop(requests, i, acc) ==
  IF i > Len(requests) \/ acc.raised THEN acc
  ELSE BatchLoop(requests, i + 1, Accumulate(acc, predict_yield(requests[i])))

\* Lines 283-292: the dict returned after the loop, or the 500 raised for
\* the exception that left it.
BatchResult(loop) ==
  IF loop.raised
  THEN [raised |-> TRUE, value |-> <<>>,
        exc |-> HTTPException(500, <<"Batch prediction failed: ">> \o str(loop.exc)),
        calls |-> loop.calls, log |-> loop.log]
  ELSE [raised |-> FALSE,
        value |-> [count |-> Len(loop.value), predictions |-> loop.value],
        exc |-> NoException, calls |-> loop.calls, log |-> loop.log]

predict_yield_batch(requests) ==
  BatchResult(BatchLoop(requests, 1,
                [raised |-> FALSE, value |-> <<>>, exc |-> NoException,
                 calls |-> <<>>, log |-> <<>>]))

\* The list built from the validated items: an error carries the index of
\* its item.
ValidatedList(items) ==
  IF \E i \in 1..Len(items) : items[i].raised
  THEN [raised |-> TRUE, value |-> <<>>,
        errors |-> [i \in {k \in 1..Len(items) : items[k].raised} |-> items[i].errors]]
  ELSE [raised |-> FALSE, value |-> [i \in 1..Len(items) |-> items[i].value],
        errors |-> <<>>]

\* Construction of the List[YieldPredictionRequest] body: every item is
\* validated.
RequestList(raws) ==
  ValidatedList([i \in 1..Len(raws) |-> YieldPredictionRequest(raws[i])])

(* --------------------------- HTTP responses ---------------------------- *)

Ok(content) ==
  [status_code |-> 200, content |-> content]

\* RequestValidationError: the body did not validate, the handler is not called.
UnprocessableEntity(errors) ==
  [status_code |-> 422, content |-> [detail |-> errors]]

\* An HTTPException raised by a handler.
ErrorResponse(e) ==
  [status_code |-> e.status_code, content |-> [detail |-> e.detail]]

(* ------------------------------ startup -------------------------------- *)

NoResponse ==
  [status_code |-> 0, content |-> <<>>]

Init ==
  /\ pc = "load_model"
  /\ loaded = {}
  /\ model = [n_features_in_ |-> 0, limit |-> 0]
  /\ scaler = [kind |-> "unbound"]
  /\ le_state = [classes_ |-> <<>>]
  /\ le_grade = [classes_ |-> <<>>]
  /\ feature_names = <<>>
  /\ VALID_STATES = <<>>
  /\ VALID_GRADES = <<>>
  /\ op = "none"
  /\ request = <<>>
  /\ response = NoResponse
  /\ calls = <<>>
  /\ log = <<>>

NoRequest ==
  UNCHANGED <<op, request, response, calls, log>>

LoadModel ==
  /\ pc = "load_model"
  /\ \E a \in ModelArtifacts : model' = a
  /\ loaded' = loaded \cup {"model"}
  /\ pc' = "load_scaler"
  /\ UNCHANGED <<scaler, le_state, le_grade, feature_names, VALID_STATES, VALID_GRADES>>
  /\ NoRequest

LoadScaler ==
  /\ pc = "load_scaler"
  /\ \E a \in ScalerArtifacts : scaler' = a
  /\ loaded' = loaded \cup {"scaler"}
  /\ pc' = "load_le_state"
  /\ UNCHANGED <<model, le_state, le_grade, feature_names, VALID_STATES, VALID_GRADES>>
  /\ NoRequest

LoadStateEncoder ==
  /\ pc = "load_le_state"
  /\ \E a \in StateEncoderArtifacts : le_state' = a
  /\ loaded' = loaded \cup {"le_state"}
  /\ pc' = "load_le_grade"
  /\ UNCHANGED <<model, scaler, le_grade, feature_names, VALID_STATES, VALID_GRADES>>
  /\ NoRequest

LoadGradeEncoder ==
  /\ pc = "load_le_grade"
  /\ \E a \in GradeEncoderArtifacts : le_grade' = a
  /\ loaded' = loaded \cup {"le_grade"}
  /\ pc' = "load_feature_names"
  /\ UNCHANGED <<model, scaler, le_state, feature_names, VALID_STATES, VALID_GRADES>>
  /\ NoRequest

LoadFeatureNames ==
  /\ pc = "load_feature_names"
  /\ \E a \in FeatureSchemaArtifacts : feature_names' = a
  /\ loaded' = loaded \cup {"feature_names"}
  /\ pc' = "classes"
  /\ UNCHANGED <<model, scaler, le_state, le_grade, VALID_STATES, VALID_GRADES>>
  /\ NoRequest

LoadPhases ==
  {"load_model", "load_scaler", "load_le_state", "load_le_grade", "load_feature_names"}

\* The except clause without its raise: execution goes on after the try.
LoadFailed_swallowed ==
  /\ pc \in LoadPhases
  /\ pc' = "classes"
  /\ UNCHANGED <<loaded, model, scaler, le_state, le_grade, feature_names,
                 VALID_STATES, VALID_GRADES>>
  /\ NoRequest

\* joblib.load raises (file missing or unreadable): print, then re-raise;
\* the import of the module fails and the process exits.
LoadFailed ==
  /\ pc \in LoadPhases
  /\ pc' = "exited"
  /\ UNCHANGED <<loaded, model, scaler, le_state, le_grade, feature_names,
                 VALID_STATES, VALID_GRADES>>
  /\ NoRequest

\* VALID_STATES = le_state.classes_.tolist(); VALID_GRADES likewise; the
\* application then serves.
ReadClasses ==
  /\ pc = "classes"
  /\ VALID_STATES' = le_state.classes_
  /\ VALID_GRADES' = le_grade.classes_
  /\ pc' = "serving"
  /\ UNCHANGED <<loaded, model, scaler, le_state, le_grade, feature_names>>
  /\ NoRequest

(* ----------------------------- endpoints ------------------------------- *)

\* A request is taken when no other is being handled; the handler runs to its
\* response in one step.
Idle ==
  pc = "serving" /\ op = "none"

Serve(endpoint, body, resp, made, printed) ==
  /\ op' = endpoint
  /\ request' = body
  /\ response' = resp
  /\ calls' = made
  /\ log' = printed

ReadOnly ==
  UNCHANGED <<pc, loaded, model, scaler, le_state, le_grade, feature_names,
              VALID_STATES, VALID_GRADES>>

root ==
  /\ Idle
  /\ Serve("root", <<>>,
           Ok([message |-> "Welcome to Nigerian Maize Yield Prediction API",
               documentation |-> "/docs", health_check |-> "/health",
               prediction_endpoint |-> "/predict (POST)"]), <<>>, <<>>)
  /\ ReadOnly

health_check ==
  /\ Idle
  /\ Serve("health", <<>>,
           Ok([status |-> "healthy", model_loaded |-> "model" \in loaded,
               available_states |-> Len(VALID_STATES),
               available_grades |-> Len(VALID_GRADES)]), <<>>, <<>>)
  /\ ReadOnly

\* What the client gets from a handler outcome r, the calls made and the
\* tracebacks printed.
Handled(r) ==
  [response |-> IF r.raised THEN ErrorResponse(r.exc) ELSE Ok(r.value),
   calls |-> r.calls, log |-> r.log]

\* A body that did not validate: the handler is not called.
Rejected(body) ==
  [response |-> UnprocessableEntity(body.errors), calls |-> <<>>, log |-> <<>>]

\* POST /predict with body raw: the body is validated, then the handler is
\* called.
HandlePredict(raw) ==
  IF YieldPredictionRequest(raw).raised
  THEN Rejected(YieldPredictionRequest(raw))
  ELSE Handled(predict_yield(YieldPredictionRequest(raw).value))

\* POST /predict/batch with body raws.
HandleBatch(raws) ==
  IF RequestList(raws).raised
  THEN Rejected(RequestList(raws))
  ELSE Handled(predict_yield_batch(RequestList(raws).value))

PostPredict ==
  /\ Idle
  /\ \E raw \in RawRequests :
       \E h \in {HandlePredict(raw)} :
         Serve("predict", raw, h.response, h.calls, h.log)
  /\ ReadOnly

PostPredictBatch ==
  /\ Idle
  /\ \E raws \in BatchInputs :
       \E h \in {HandleBatch(raws)} :
         Serve("batch", raws, h.response, h.calls, h.log)
  /\ ReadOnly

\* /states with VALID_STATES.sort() written for sorted(VALID_STATES).
get_available_states_in_place ==
  /\ Idle
  /\ Serve("states", <<>>,
           Ok([count |-> Len(VALID_STATES), states |-> sorted(VALID_STATES)]), <<>>, <<>>)
  /\ VALID_STATES' = sorted(VALID_STATES)
  /\ UNCHANGED <<pc, loaded, model, scaler, le_state, le_grade, feature_names,
                 VALID_GRADES>>

get_available_states ==
  /\ Idle
  /\ Serve("states", <<>>,
           Ok([count |-> Len(VALID_STATES), states |-> sorted(VALID_STATES)]), <<>>, <<>>)
  /\ ReadOnly

get_available_grades ==
  /\ Idle
  /\ Serve("grades", <<>>,
           Ok([count |-> Len(VALID_GRADES), grades |-> sorted(VALID_GRADES)]), <<>>, <<>>)
  /\ ReadOnly

\* The response is sent; the request and everything built for it is dropped.
SendResponse ==
  /\ pc = "serving"
  /\ op # "none"
  /\ op' = "none"
  /\ request' = <<>>
  /\ response' = NoResponse
  /\ calls' = <<>>
  /\ log' = <<>>
  /\ ReadOnly

Next ==
  \/ LoadModel
  \/ LoadScaler
  \/ LoadStateEncoder
  \/ LoadGradeEncoder
  \/ LoadFeatureNames
  \/ LoadFailed
  \/ ReadClasses
  \/ root
  \/ health_check
  \/ PostPredict
  \/ PostPredictBatch
  \/ get_available_states
  \/ get_available_grades
  \/ SendResponse

Spec ==
  Init /\ [][Next]_vars

(* ------------------------------ properties ----------------------------- *)

\* The rules of the request schema, stated on the raw body.
StateKnown(raw) ==
  \E i \in 1..Len(le_state.classes_) : le_state.classes_[i] = raw.state

GradeKnown(raw) ==
  \E i \in 1..Len(le_grade.classes_) : le_grade.classes_[i] = raw.quality_grade

YearInRange(raw) ==
  raw.year >= 2000 /\ raw.year <= 2030

AreaInRange(raw) ==
  raw.area_ha > 0 /\ raw.area_ha <= 1000

SeasonAccepted(raw) ==
  lower(raw.season) = <<"w", "e", "t">> \/ lower(raw.season) = <<"d", "r", "y">>

Valid(raw) ==
  StateKnown(raw) /\ GradeKnown(raw) /\ YearInRange(raw) /\ AreaInRange(raw)
  /\ SeasonAccepted(raw)

\* The calls of the last request to model.predict.
PredictCalls ==
  SelectSeq(calls, LAMBDA c : c.fn = "model.predict")

\* The value of column name in frame X.
Column(X, name) ==
  X.row[CHOOSE i \in 1..Len(X.columns) : X.columns[i] = name]

IsPermutation(names) ==
  Len(names) = 6 /\ Range(names) = Range(AssembledColumns)

\* C1: a request to POST /predict with an unknown state, an unknown grade, a
\* year outside [2000, 2030] or an area outside (0, 1000] is answered 422 and
\* no encoder or predictor call is made for it; on either prediction endpoint
\* a call to an encoder or to the predictor implies that every posted item
\* satisfies all validation rules.
C1_ValidationBeforeEncoding ==
  /\ op = "predict" =>
       /\ ~(StateKnown(request) /\ GradeKnown(request) /\ YearInRange(request)
            /\ AreaInRange(request))
            => response.status_code = 422 /\ calls = <<>>
       /\ calls # <<>> => Valid(request)
  /\ op = "batch" =>
       (calls # <<>> => \A i \in 1..Len(request) : Valid(request[i]))

C1_Witness ==
  /\ op = "predict"
  /\ ~StateKnown(request)
  /\ GradeKnown(request) /\ YearInRange(request) /\ AreaInRange(request)
  /\ SeasonAccepted(request)
  /\ response.status_code = 422
  /\ calls = <<>>

\* The value the slot called name must carry for the raw request raw.
SlotValue(name, raw) ==
  CASE name = "state" ->
         (CHOOSE i \in 1..Len(le_state.classes_) : le_state.classes_[i] = raw.state) - 1
    [] name = "is_wet" -> IF lower(raw.season) = <<"w", "e", "t">> THEN 1 ELSE 0
    [] name = "year" -> raw.year
    [] name = "area_ha" -> raw.area_ha
    [] name = "quality_grade" ->
         (CHOOSE i \in 1..Len(le_grade.classes_) :
            le_grade.classes_[i] = raw.quality_grade) - 1
    [] name = "area_wet_interaction" ->
         IF lower(raw.season) = <<"w", "e", "t">> THEN raw.area_ha ELSE 0

\* C2: for a valid request and a schema that is a permutation of the six slot
\* names, model.predict is called once, with a vector whose i-th value is the
\* value of the slot named feature_names[i].
C2_SchemaOrder ==
  (op = "predict" /\ Valid(request) /\ IsPermutation(feature_names)) =>
    /\ Len(PredictCalls) = 1
    /\ Len(PredictCalls[1].arg.row) = 6
    /\ \A i \in 1..6 :
         PredictCalls[1].arg.row[i] = SlotValue(feature_names[i], request)

C2_Witness ==
  /\ op = "predict"
  /\ Valid(request)
  /\ IsPermutation(feature_names)
  /\ feature_names # AssembledColumns
  /\ request.area_ha = 1000
  /\ response.status_code = 200

\* C3: in the vector of a valid request the wet flag is 1 for "wet" and 0 for
\* "dry", and the interaction term is area_ha for "wet" and 0 for "dry".
C3_InteractionTerm ==
  (op = "predict" /\ Len(PredictCalls) > 0) =>
    LET X == PredictCalls[1].arg
        normalized == lower(request.season)
    IN  /\ "is_wet" \in Range(X.columns) =>
             /\ normalized = <<"w", "e", "t">> => Column(X, "is_wet") = 1
             /\ normalized = <<"d", "r", "y">> => Column(X, "is_wet") = 0
        /\ "area_wet_interaction" \in Range(X.columns) =>
             /\ normalized = <<"w", "e", "t">> =>
                  Column(X, "area_wet_interaction") = request.area_ha
             /\ normalized = <<"d", "r", "y">> =>
                  Column(X, "area_wet_interaction") = 0

C3_Witness ==
  /\ op = "predict"
  /\ request.season = <<"d", "r", "y">>
  /\ request.area_ha = 1000
  /\ Len(PredictCalls) > 0
  /\ "area_wet_interaction" \in Range(PredictCalls[1].arg.columns)
  /\ Column(PredictCalls[1].arg, "area_wet_interaction") = 0
  /\ response.status_code = 200

SeasonErrors ==
  IF response.status_code = 422
  THEN SelectSeq(response.content.detail, LAMBDA e : e.loc = "season")
  ELSE <<>>

\* C4: a season whose lower-cased form is "wet" or "dry" passes validation,
\* the wet flag is derived from the lower-cased value and the response echoes
\* the lower-cased value; any other season is rejected by validation.
C4_SeasonNormalized ==
  op = "predict" =>
    /\ ~SeasonAccepted(request) => response.status_code = 422 /\ SeasonErrors # <<>>
    /\ SeasonAccepted(request) =>
         /\ SeasonErrors = <<>>
         /\ response.status_code = 200 =>
              response.content.input_parameters.season = lower(request.season)
         /\ (Len(PredictCalls) > 0 /\ "is_wet" \in Range(PredictCalls[1].arg.columns)) =>
              (Column(PredictCalls[1].arg, "is_wet") = 1
                 <=> lower(request.season) = <<"w", "e", "t">>)
    /\ (request.season = <<"W", "E", "T">> /\ response.status_code = 200) =>
         response.content.input_parameters.season = <<"w", "e", "t">>

C4_Witness ==
  /\ op = "predict"
  /\ request.season = <<"W", "E", "T">>
  /\ response.status_code = 200
  /\ response.content.input_parameters.season = <<"w", "e", "t">>
  /\ Column(PredictCalls[1].arg, "is_wet") = 1

\* The item fails when posted alone to /predict.
ItemFails(raw) ==
  HandlePredict(raw).response.status_code # 200

\* C5: a batch in which some item fails, by validation or internally, is
\* answered with an error and without any list of predictions.
C5_BatchAllOrNothing ==
  (op = "batch" /\ \E i \in 1..Len(request) : ItemFails(request[i])) =>
    /\ response.status_code \in {422, 500}
    /\ DOMAIN response.content = {"detail"}

C5_Witness ==
  /\ op = "batch"
  /\ Len(request) = 3
  /\ ~ItemFails(request[1])
  /\ Valid(request[2]) /\ ItemFails(request[2])
  /\ ~ItemFails(request[3])
  /\ response.status_code = 500

\* C6: a batch of valid requests that all succeed is answered 200 with as
\* many predictions as items, count equal to that number, and the i-th
\* prediction equal to the answer of /predict for the i-th item.
C6_BatchOrder ==
  (op = "batch" /\ \A i \in 1..Len(request) : ~ItemFails(request[i])) =>
    /\ response.status_code = 200
    /\ response.content.count = Len(request)
    /\ Len(response.content.predictions) = Len(request)
    /\ \A i \in 1..Len(request) :
         response.content.predictions[i] = HandlePredict(request[i]).response.content

C6_Witness ==
  /\ op = "batch"
  /\ Len(request) = 3
  /\ request[1] # request[2]
  /\ request[2] # request[3]
  /\ response.status_code = 200
  /\ response.content.predictions[1] # response.content.predictions[3]

\* C7: the 500 of an internal failure does not depend on the message of the
\* internal exception: no part of a printed exception's message is in it.
C7_GenericFailure ==
  (op \in {"predict", "batch"} /\ response.status_code = 500) =>
    \A k \in 1..Len(log) :
      Range(log[k].msg) \cap Range(response.content.detail) = {}

\* C8: the service serves only if every artifact load succeeded; after a
\* failed load the process has exited and no request is ever handled.
C8_StartupFatal ==
  /\ (pc = "serving" \/ op # "none") => loaded = Artifacts
  /\ pc = "exited" => op = "none"

C8_Witness ==
  pc = "exited" /\ loaded = {"model", "scaler", "le_state"}

\* C9: no step of the serving process changes the encoders, their known
\* sets, the feature schema or the predictor.
C9_ReadOnlyGlobals ==
  [][pc = "serving" => UNCHANGED globals]_vars

C9_Witness ==
  /\ op = "states"
  /\ response.content.states # VALID_STATES
  /\ VALID_STATES = le_state.classes_

StateErrors ==
  IF response.status_code = 422
  THEN SelectSeq(response.content.detail, LAMBDA e : e.loc = "state")
  ELSE <<>>

\* C10: the message for an unknown state lists the first min(10, n) known
\* states and reports n minus the number listed as "more", never a negative
\* number.
C10_MoreCount ==
  (op = "predict" /\ ~StateKnown(request)) =>
    /\ Len(StateErrors) = 1
    /\ LET m == StateErrors[1].msg[1]
           n == Len(VALID_STATES)
       IN  /\ Len(m.listed) = (IF n < 10 THEN n ELSE 10)
           /\ m.more = n - Len(m.listed)
           /\ m.more >= 0

====
